---------------------------- MODULE Spec2Model ----------------------------
(***************************************************************************)
(* Model of the task-copilot orchestration core:                           *)
(*   - FlowManager (crates/services/src/services/flow_manager.rs)          *)
(*   - TaskBuildHistory store (crates/db/src/models/task_build_history.rs) *)
(***************************************************************************)
EXTENDS Integers, Sequences, FiniteSets, TLC

\* ------------------------------------------------------------------------
\* Bounds of the model
\* ------------------------------------------------------------------------

\* longest action list a caller assembles by hand through the public fields
MaxActions == 2

\* entries one task already holds in a store that has been in use
Preload == 99

\* calls of TaskBuildHistory::create explored from the initial store
MaxCreates == 3

\* last instant of the clock (datetime('now'))
MaxTime == 3

\* the longest base_url given to JiraClient::new
MaxUrlLen == 3

\* the most actions a summary put on the wire has
MaxWireActions == 2

\* ------------------------------------------------------------------------
\* FlowManager: types
\* ------------------------------------------------------------------------

\* enum FlowIntent
FlowIntent == {"Code", "Jira", "Confluence"}

\* impl fmt::Display for FlowIntent
Display(intent) ==
    CASE intent = "Code" -> "code"
      [] intent = "Jira" -> "jira"
      [] intent = "Confluence" -> "confluence"

\* enum FlowActionStatus
FlowActionStatus == {"Pending", "InProgress", "Completed", "Failed"}

\* struct FlowAction
FlowAction(name, description, status) ==
    [name |-> name, description |-> description, status |-> status]

\* struct FlowSummary
FlowSummary(intent, description, actions) ==
    [intent |-> intent, description |-> description, actions |-> actions]

\* Option<T> as a sequence of length 0 or 1
None == << >>
Some(x) == << x >>

\* titles of CodeFlowInput / JiraFlowInput / ConfluenceFlowInput
Titles == {"Test", "PROJ-123: Database migration"}

\* vec![...] of create_code_flow
CodeActions ==
    << FlowAction("Check Existing Code",
                  "Analyze current codebase and identify relevant files", "Pending"),
       FlowAction("Create Issue",
                  "Create task tracking issue for changes", "Pending"),
       FlowAction("Implement Solution",
                  "Generate code changes based on requirements", "Pending"),
       FlowAction("Fix Issues",
                  "Address any errors or test failures", "Pending"),
       FlowAction("Override Files",
                  "Apply changes to repository files", "Pending") >>

\* create_jira_flow with the review step and Finalize pushed in the wrong order
JiraActionsSwapped ==
    << FlowAction("Read Title & Description",
                  "Parse and understand Jira requirements", "Pending"),
       FlowAction("Analyze Requirements",
                  "Use agents to analyze best approach for solution", "Pending"),
       FlowAction("Generate Task Proposal",
                  "Create detailed task breakdown and implementation plan", "Pending"),
       FlowAction("Finalize",
                  "Confirm and save Jira task proposal", "Pending"),
       FlowAction("Review Jira",
                  "Present proposal for review (no code modifications)", "Pending") >>

\* vec![...] of create_jira_flow
JiraActions ==
    << FlowAction("Read Title & Description",
                  "Parse and understand Jira requirements", "Pending"),
       FlowAction("Analyze Requirements",
                  "Use agents to analyze best approach for solution", "Pending"),
       FlowAction("Generate Task Proposal",
                  "Create detailed task breakdown and implementation plan", "Pending"),
       FlowAction("Review Jira",
                  "Present proposal for review (no code modifications)", "Pending"),
       FlowAction("Finalize",
                  "Confirm and save Jira task proposal", "Pending") >>

\* vec![...] of create_confluence_flow
ConfluenceActions ==
    << FlowAction("Read Title & Description",
                  "Parse and understand documentation requirements", "Pending"),
       FlowAction("Analyze Documentation Needs",
                  "Use agents to determine best documentation structure", "Pending"),
       FlowAction("Generate Documentation",
                  "Create comprehensive Confluence page content", "Pending"),
       FlowAction("Review Confluence",
                  "Present documentation for review (no code modifications)", "Pending"),
       FlowAction("Finalize",
                  "Confirm and save Confluence documentation", "Pending") >>

\* execute_code_flow with the "Fix Issues" arm forgotten
CodeOutcomeMissingArm(name) ==
    CASE name = "Check Existing Code" -> "Completed"
      [] name = "Create Issue" -> "Completed"
      [] name = "Implement Solution" -> "Completed"
      [] name = "Override Files" -> "Completed"
      [] OTHER -> "Failed"

\* match action.name.as_str() of execute_code_flow
CodeOutcome(name) ==
    CASE name = "Check Existing Code" -> "Completed"
      [] name = "Create Issue" -> "Completed"
      [] name = "Implement Solution" -> "Completed"
      [] name = "Fix Issues" -> "Completed"
      [] name = "Override Files" -> "Completed"
      [] OTHER -> "Failed"

\* execute_jira_flow completing the Finalize step as the Code runner completes its last step
JiraOutcomeFinalizeDone(name) ==
    CASE name = "Read Title & Description" -> "Completed"
      [] name = "Analyze Requirements" -> "Completed"
      [] name = "Generate Task Proposal" -> "Completed"
      [] name = "Review Jira" -> "Pending"
      [] name = "Finalize" -> "Completed"
      [] OTHER -> "Failed"

\* match action.name.as_str() of execute_jira_flow
JiraOutcome(name) ==
    CASE name = "Read Title & Description" -> "Completed"
      [] name = "Analyze Requirements" -> "Completed"
      [] name = "Generate Task Proposal" -> "Completed"
      [] name = "Review Jira" -> "Pending"
      [] name = "Finalize" -> "Pending"
      [] OTHER -> "Failed"

\* match action.name.as_str() of execute_confluence_flow
ConfluenceOutcome(name) ==
    CASE name = "Read Title & Description" -> "Completed"
      [] name = "Analyze Documentation Needs" -> "Completed"
      [] name = "Generate Documentation" -> "Completed"
      [] name = "Review Confluence" -> "Pending"
      [] name = "Finalize" -> "Pending"
      [] OTHER -> "Failed"

\* match self.intent of execute_flow: the runner the call dispatches to
Runner(intent) ==
    CASE intent = "Code" -> "execute_code_flow"
      [] intent = "Jira" -> "execute_jira_flow"
      [] intent = "Confluence" -> "execute_confluence_flow"

\* the match of the runner that is executing
Outcome(run, name) ==
    CASE run = "execute_code_flow" -> CodeOutcome(name)
      [] run = "execute_jira_flow" -> JiraOutcome(name)
      [] run = "execute_confluence_flow" -> ConfluenceOutcome(name)

\* action.status = ... on the i-th element of summary.actions
SetStatus(actions, k, status) ==
    [actions EXCEPT ![k] = [@ EXCEPT !.status = status]]

\* names a caller may put into a hand-built summary: one completed by the Code
\* runner, one completed by the Jira and Confluence runners, one they leave
\* Pending, one known to no runner
NamePool == {"Create Issue", "Read Title & Description", "Finalize", "Unknown Step"}

\* Vec<FlowAction> values of length <= MaxActions over NamePool
RECURSIVE ActionLists(_)
ActionLists(n) ==
    IF n = 0 THEN {<< >>}
    ELSE LET shorter == ActionLists(n - 1)
         IN shorter \cup
            { Append(l, FlowAction(nm, "custom", st)) :
                l \in {s \in shorter : Len(s) = n - 1},
                nm \in NamePool, st \in FlowActionStatus }


\* ------------------------------------------------------------------------
\* State
\* ------------------------------------------------------------------------

VARIABLES
    manager,    \* FlowManager.intent of the manager the caller holds
    summary,    \* Option<FlowSummary>: the summary the caller owns
    result,     \* what the most recent call returned
    pc,         \* position inside execute_flow: "idle", "loop", "match"
    idx,        \* position of the iterator of summary.actions.iter_mut()
    runner,     \* the intent runner execute_flow dispatched to
    origin,     \* where the caller's summary came from: "none", "hand" or the create_*_flow that built it
    fresh,      \* the summary came from create_*_flow and no execute_flow has finished on it
    lastExec,   \* Option: the latest execute_flow call this manager finished on this summary
    prevExec,   \* Option: the call it finished on this summary before lastExec
    table,      \* rows of task_build_history, in insertion (rowid) order
    now,        \* datetime('now')
    nextId,     \* the next value Uuid::new_v4() yields
    creates,    \* calls of create made so far
    storeResult, \* what the most recent store operation returned
    writers,    \* the concurrent callers of create: where each stands in its call
    request,    \* Option<ReviewAgentRequest>: the review action the caller holds
    rpc,        \* position inside ReviewAgentRequest::spawn
    call,       \* the arguments of the spawn call: current_dir, approvals, env
    effectiveDir, \* let effective_dir
    agent,      \* Option: let mut agent, with the approvals bound to it
    events,     \* the calls spawn has made on the registry and the agent, in order
    spawnResult, \* what the most recent spawn call returned
    sent,       \* Option: the value handed to the serializer
    wire,       \* Option: the text on the wire
    received,   \* Option: what the deserializer made of the text
    jiraArgs,   \* Option: the arguments of the most recent JiraClient::new
    jiraResult, \* Result<JiraClient, JiraError> of that call
    portfolios, \* rows of portfolios, by id
    updaters,   \* the concurrent callers of Portfolio::update
    portfolioResult \* what the most recent portfolio statement returned

flowVars == << manager, summary, result, pc, idx, runner, origin, fresh,
              lastExec, prevExec >>

storeVars == << table, now, nextId, creates, storeResult >>

writerVars == << writers >>

reviewVars == << request, rpc, call, effectiveDir, agent, events, spawnResult >>

wireVars == << sent, wire, received >>

jiraVars == << jiraArgs, jiraResult >>

portfolioVars == << portfolios, updaters, portfolioResult >>

\* the state of the parts no flow, store or review operation touches
clientVars == << wireVars, jiraVars, portfolioVars >>

vars == << flowVars, storeVars, writerVars, reviewVars, clientVars >>

\* Result<FlowSummary, FlowError> / Result<Vec<FlowAction>, FlowError> as returned
Ret(op, tag, error, message, value, actions) ==
    [op |-> op, tag |-> tag, error |-> error, message |-> message,
     value |-> value, actions |-> actions]

\* no call has returned yet
NoResult == Ret("none", "none", "", "", None, << >>)

\* Err(FlowError::InvalidIntent(format!("Expected {} intent, got {}", kind, self.intent)))
InvalidIntent(op, kind, intent) ==
    Ret(op, "Err", "InvalidIntent",
        "Expected " \o kind \o " intent, got " \o Display(intent), None, << >>)

\* the summary, when the caller owns one
TheSummary == summary[1]

\* ------------------------------------------------------------------------
\* FlowManager: operations
\* ------------------------------------------------------------------------

\* FlowManager::new(intent)
New(intent) ==
    /\ pc = "idle"
    /\ manager' = intent
    /\ result' = NoResult
    /\ lastExec' = None
    /\ prevExec' = None
    /\ UNCHANGED << summary, pc, idx, runner, origin, fresh >>
    /\ UNCHANGED << storeVars, writerVars, reviewVars, clientVars >>

\* the caller keeps the summary a successful create_*_flow returned
KeepCreated(op, s) ==
    /\ summary' = Some(s)
    /\ origin' = op
    /\ fresh' = TRUE
    /\ lastExec' = None
    /\ prevExec' = None

\* create_code_flow without the check of self.intent
CreateCodeFlowUnchecked(title) ==
    /\ pc = "idle"
    /\ LET s == FlowSummary("Code", "Code flow: " \o title, CodeActions)
       IN /\ result' = Ret("create_code_flow", "Ok", "", "", Some(s), << >>)
          /\ KeepCreated("create_code_flow", s)
    /\ UNCHANGED << manager, pc, idx, runner >>
    /\ UNCHANGED << storeVars, writerVars, reviewVars, clientVars >>

\* FlowManager::create_code_flow(&self, input)
CreateCodeFlow(title) ==
    /\ pc = "idle"
    /\ IF manager # "Code"
       THEN /\ result' = InvalidIntent("create_code_flow", "Code", manager)
            /\ UNCHANGED << summary, origin, fresh, lastExec, prevExec >>
       ELSE LET s == FlowSummary("Code", "Code flow: " \o title, CodeActions)
            IN /\ result' = Ret("create_code_flow", "Ok", "", "", Some(s), << >>)
               /\ KeepCreated("create_code_flow", s)
    /\ UNCHANGED << manager, pc, idx, runner >>
    /\ UNCHANGED << storeVars, writerVars, reviewVars, clientVars >>

\* FlowManager::create_jira_flow(&self, input)
CreateJiraFlow(title) ==
    /\ pc = "idle"
    /\ IF manager # "Jira"
       THEN /\ result' = InvalidIntent("create_jira_flow", "Jira", manager)
            /\ UNCHANGED << summary, origin, fresh, lastExec, prevExec >>
       ELSE LET s == FlowSummary("Jira", "Jira flow: " \o title, JiraActions)
            IN /\ result' = Ret("create_jira_flow", "Ok", "", "", Some(s), << >>)
               /\ KeepCreated("create_jira_flow", s)
    /\ UNCHANGED << manager, pc, idx, runner >>
    /\ UNCHANGED << storeVars, writerVars, reviewVars, clientVars >>

\* FlowManager::create_confluence_flow(&self, input)
CreateConfluenceFlow(title) ==
    /\ pc = "idle"
    /\ IF manager # "Confluence"
       THEN /\ result' = InvalidIntent("create_confluence_flow", "Confluence", manager)
            /\ UNCHANGED << summary, origin, fresh, lastExec, prevExec >>
       ELSE LET s == FlowSummary("Confluence", "Confluence flow: " \o title,
                                 ConfluenceActions)
            IN /\ result' = Ret("create_confluence_flow", "Ok", "", "", Some(s), << >>)
               /\ KeepCreated("create_confluence_flow", s)
    /\ UNCHANGED << manager, pc, idx, runner >>
    /\ UNCHANGED << storeVars, writerVars, reviewVars, clientVars >>

\* execute_flow dispatching on the intent the summary carries
ExecuteFlowBySummaryIntent ==
    /\ pc = "idle"
    /\ summary # None
    /\ pc' = "loop"
    /\ idx' = 1
    /\ runner' = Runner(TheSummary.intent)
    /\ UNCHANGED << manager, summary, result, origin, fresh, lastExec, prevExec >>
    /\ UNCHANGED << storeVars, writerVars, reviewVars, clientVars >>

\* FlowManager::execute_flow(&self, summary): dispatch on self.intent
ExecuteFlow ==
    /\ pc = "idle"
    /\ summary # None
    /\ pc' = "loop"
    /\ idx' = 1
    /\ runner' = Runner(manager)
    /\ UNCHANGED << manager, summary, result, origin, fresh, lastExec, prevExec >>
    /\ UNCHANGED << storeVars, writerVars, reviewVars, clientVars >>

\* the loop marking the next action InProgress along with the current one
SetInProgressAhead ==
    /\ pc = "loop"
    /\ idx <= Len(TheSummary.actions)
    /\ summary' = Some([TheSummary EXCEPT
                          !.actions = [k \in DOMAIN @ |->
                                         IF k \in {idx, idx + 1}
                                         THEN [@[k] EXCEPT !.status = "InProgress"]
                                         ELSE @[k]]])
    /\ pc' = "match"
    /\ UNCHANGED << manager, result, idx, runner, origin, fresh, lastExec, prevExec >>
    /\ UNCHANGED << storeVars, writerVars, reviewVars, clientVars >>

\* for action in summary.actions.iter_mut() { action.status = InProgress; ...
SetInProgress ==
    /\ pc = "loop"
    /\ idx <= Len(TheSummary.actions)
    /\ summary' = Some([TheSummary EXCEPT
                          !.actions = SetStatus(@, idx, "InProgress")])
    /\ pc' = "match"
    /\ UNCHANGED << manager, result, idx, runner, origin, fresh, lastExec, prevExec >>
    /\ UNCHANGED << storeVars, writerVars, reviewVars, clientVars >>

\* the loop body leaving the loop at the first action it fails
MatchNameFailFast ==
    /\ pc = "match"
    /\ summary' = Some([TheSummary EXCEPT
                          !.actions = SetStatus(@, idx,
                                        Outcome(runner, @[idx].name))])
    /\ idx' = IF Outcome(runner, TheSummary.actions[idx].name) = "Failed"
              THEN Len(TheSummary.actions) + 1
              ELSE idx + 1
    /\ pc' = "loop"
    /\ UNCHANGED << manager, result, runner, origin, fresh, lastExec, prevExec >>
    /\ UNCHANGED << storeVars, writerVars, reviewVars, clientVars >>

\* the loop body writing the outcome into the action's description as well
MatchNameAnnotating ==
    /\ pc = "match"
    /\ summary' = Some([TheSummary EXCEPT
                          !.actions = [@ EXCEPT ![idx] =
                             [@ EXCEPT !.status = Outcome(runner, TheSummary.actions[idx].name),
                                       !.description =
                                          IF Outcome(runner, TheSummary.actions[idx].name)
                                                = "Failed"
                                          THEN "Unknown action" ELSE @]]])
    /\ idx' = idx + 1
    /\ pc' = "loop"
    /\ UNCHANGED << manager, result, runner, origin, fresh, lastExec, prevExec >>
    /\ UNCHANGED << storeVars, writerVars, reviewVars, clientVars >>

\* ... match action.name.as_str() { name => action.status = outcome } }
MatchName ==
    /\ pc = "match"
    /\ summary' = Some([TheSummary EXCEPT
                          !.actions = SetStatus(@, idx,
                                        Outcome(runner, @[idx].name))])
    /\ idx' = idx + 1
    /\ pc' = "loop"
    /\ UNCHANGED << manager, result, runner, origin, fresh, lastExec, prevExec >>
    /\ UNCHANGED << storeVars, writerVars, reviewVars, clientVars >>

\* the runner returning the summary's action list itself (std::mem::take)
\* instead of a clone of it
ReturnActionsTake ==
    /\ pc = "loop"
    /\ idx > Len(TheSummary.actions)
    /\ result' = Ret("execute_flow", "Ok", "", "", None, TheSummary.actions)
    /\ summary' = Some([TheSummary EXCEPT !.actions = << >>])
    /\ prevExec' = lastExec
    /\ lastExec' = Some([by |-> manager,
                         returned |-> TheSummary.actions,
                         after |-> << >>])
    /\ fresh' = FALSE
    /\ pc' = "idle"
    /\ UNCHANGED << manager, idx, runner, origin >>
    /\ UNCHANGED << storeVars, writerVars, reviewVars, clientVars >>

\* Ok(summary.actions.clone())
ReturnActions ==
    /\ pc = "loop"
    /\ idx > Len(TheSummary.actions)
    /\ result' = Ret("execute_flow", "Ok", "", "", None, TheSummary.actions)
    /\ prevExec' = lastExec
    /\ lastExec' = Some([by |-> manager,
                         returned |-> TheSummary.actions,
                         after |-> TheSummary.actions])
    /\ fresh' = FALSE
    /\ pc' = "idle"
    /\ UNCHANGED << manager, summary, idx, runner, origin >>
    /\ UNCHANGED << storeVars, writerVars, reviewVars, clientVars >>

\* what a store operation returned: the row of create, the rows affected of
\* the two deletes; with the task it was called for and the instant it ran at
StoreRet(op, arg, entry, affected) ==
    [op |-> op, arg |-> arg, entry |-> entry, affected |-> affected, at |-> now]

NoStoreResult == [op |-> "none", arg |-> "", entry |-> None, affected |-> 0, at |-> 0]

\* nothing was serialized yet
WireIdle ==
    /\ sent = None
    /\ wire = None
    /\ received = None

\* Result<JiraClient, JiraError>
JiraRet(tag, error, message, client) ==
    [tag |-> tag, error |-> error, message |-> message, client |-> client]

NoJiraResult == JiraRet("none", "", "", None)

\* JiraClient::new was never called
JiraIdle ==
    /\ jiraArgs = None
    /\ jiraResult = NoJiraResult

\* the identifiers portfolios are asked for by, and the callers of update
PortfolioIds == {"p1", "p2"}

Updaters == {"a", "b"}

\* a caller outside Portfolio::update
IdleUpdater == [pc |-> "idle", id |-> "", payload |-> None, existing |-> None]

\* Result<Portfolio, sqlx::Error> of a statement, with the caller it answers
PortfolioRet(op, by, tag, row) == [op |-> op, by |-> by, tag |-> tag, row |-> row]

NoPortfolioResult == PortfolioRet("none", "", "none", None)

\* an empty portfolios table and no call in progress
PortfolioIdle ==
    /\ portfolios = [id \in PortfolioIds |-> None]
    /\ updaters = [u \in Updaters |-> IdleUpdater]
    /\ portfolioResult = NoPortfolioResult

\* the serializer, the Jira client and the portfolios while other parts run
ClientIdle == WireIdle /\ JiraIdle /\ PortfolioIdle

\* the callers that may be inside create at the same time
Writers == {"a", "b"}

\* a caller outside create
IdleWriter == [pc |-> "idle", id |-> 0, data |-> None]

\* no caller is inside create
WritersIdle == writers = [w \in Writers |-> IdleWriter]

\* a path as std::path::Path sees it: whether it has a root, and its components
PathOf(absolute, components) == [absolute |-> absolute, components |-> components]

NoPath == PathOf(FALSE, << >>)

NoCall == [current_dir |-> NoPath, approvals |-> "", env |-> ""]

\* Result<SpawnedChild, ExecutorError> of a spawn call
SpawnRet(tag, error, message, child) ==
    [tag |-> tag, error |-> error, message |-> message, child |-> child]

NoSpawnResult == SpawnRet("none", "", "", "")

\* no review action exists and spawn was never called
ReviewIdle ==
    /\ request = None
    /\ rpc = "idle"
    /\ call = NoCall
    /\ effectiveDir = NoPath
    /\ agent = None
    /\ events = << >>
    /\ spawnResult = NoSpawnResult

\* the store while only flows run
StoreIdle ==
    /\ table = << >>
    /\ now = 0
    /\ nextId = 1
    /\ creates = 0
    /\ storeResult = NoStoreResult

\* what the caller holds before the first call: no summary, or a FlowSummary it
\* assembled through the public fields (any intent, names and statuses)
HandBuilt ==
    {None} \cup { Some(FlowSummary(intent, "custom", actions)) :
                    intent \in FlowIntent, actions \in ActionLists(MaxActions) }

\* a manager from FlowManager::new and the caller's summary, no call made yet
FlowInit ==
    /\ manager \in FlowIntent
    /\ summary \in HandBuilt
    /\ result = NoResult
    /\ pc = "idle"
    /\ idx = 1
    /\ runner = Runner(manager)
    /\ origin = IF summary = None THEN "none" ELSE "hand"
    /\ fresh = FALSE
    /\ lastExec = None
    /\ prevExec = None
    /\ StoreIdle
    /\ WritersIdle
    /\ ReviewIdle
    /\ ClientIdle

FlowNext ==
    \/ \E intent \in FlowIntent : New(intent)
    \/ \E title \in Titles : CreateCodeFlow(title)
    \/ \E title \in Titles : CreateJiraFlow(title)
    \/ \E title \in Titles : CreateConfluenceFlow(title)
    \/ ExecuteFlow
    \/ SetInProgress
    \/ MatchName
    \/ ReturnActions


\* ------------------------------------------------------------------------
\* TaskBuildHistory store: types and queries
\* ------------------------------------------------------------------------

\* the per-task cap the insert trigger maintains
MaxEntriesPerTask == 100

\* the retention window the schema adds to created_at, in clock ticks
RetentionWindow == 2

\* task ids (rows of the tasks table)
Tasks == {"t1", "t2"}

\* struct CreateTaskBuildHistory
CreateTaskBuildHistory(task, workspace, session, ctx, content, metadata) ==
    [task_id |-> task, workspace_id |-> workspace, session_id |-> session,
     context_type |-> ctx, content |-> content, metadata |-> metadata]

\* the payloads callers pass to create: two tasks, entries with and without
\* workspace and session, the two tasks sharing workspace w1
CreateInputs ==
    { CreateTaskBuildHistory("t1", None, None, "chat_message", "Message", None),
      CreateTaskBuildHistory("t1", Some("w1"), Some("s1"), "execution_step",
                             "Step", Some("{}")),
      CreateTaskBuildHistory("t2", Some("w1"), None, "agent_turn", "Turn", None) }

\* struct TaskBuildHistory: the row the INSERT ... RETURNING yields; created_at
\* and expires_at are the schema's defaults
TaskBuildHistory(id, data, clock) ==
    [id |-> id, task_id |-> data.task_id, workspace_id |-> data.workspace_id,
     session_id |-> data.session_id, context_type |-> data.context_type,
     content |-> data.content, metadata |-> data.metadata,
     created_at |-> clock, expires_at |-> clock + RetentionWindow]

\* the read filter leaving out the entry that expires at this very instant
NotExpiredStrict(row, clock) == row.expires_at > clock

\* AND datetime(expires_at) >= datetime('now')
NotExpired(row, clock) == row.expires_at >= clock

\* WHERE datetime(expires_at) <= datetime('now')
ExpiredInclusive(row, clock) == row.expires_at <= clock

\* WHERE datetime(expires_at) < datetime('now')
Expired(row, clock) == row.expires_at < clock

\* a row put into a list ordered by created_at, after the rows not younger
RECURSIVE InsertByCreatedAt(_, _)
InsertByCreatedAt(sorted, row) ==
    IF sorted = << >> THEN << row >>
    ELSE IF sorted[Len(sorted)].created_at <= row.created_at
         THEN Append(sorted, row)
         ELSE Append(InsertByCreatedAt(SubSeq(sorted, 1, Len(sorted) - 1), row),
                     sorted[Len(sorted)])

RECURSIVE SortByCreatedAt(_)
SortByCreatedAt(rows) ==
    IF rows = << >> THEN << >>
    ELSE InsertByCreatedAt(SortByCreatedAt(SubSeq(rows, 1, Len(rows) - 1)),
                           rows[Len(rows)])

\* ORDER BY created_at ASC
OrderByCreatedAtAsc(rows) ==
    IF \A k \in 1..(Len(rows) - 1) : rows[k].created_at <= rows[k + 1].created_at
    THEN rows
    ELSE SortByCreatedAt(rows)

\* the reverse of a sequence
Reverse(rows) == [k \in 1..Len(rows) |-> rows[Len(rows) + 1 - k]]

\* find_by_task_id with ORDER BY created_at DESC
FindByTaskIdDesc(tbl, clock, task) ==
    LET Selected(row) == row.task_id = task /\ NotExpired(row, clock)
    IN Reverse(OrderByCreatedAtAsc(SelectSeq(tbl, Selected)))

\* TaskBuildHistory::find_by_task_id
FindByTaskId(tbl, clock, task) ==
    LET Selected(row) == row.task_id = task /\ NotExpired(row, clock)
    IN OrderByCreatedAtAsc(SelectSeq(tbl, Selected))

\* count_by_task_id with the WHERE task_id = $1 left out
CountAllTasks(tbl, clock, task) ==
    Cardinality({k \in DOMAIN tbl : NotExpired(tbl[k], clock)})

\* TaskBuildHistory::count_by_task_id
CountByTaskId(tbl, clock, task) ==
    Cardinality({k \in DOMAIN tbl :
                   tbl[k].task_id = task /\ NotExpired(tbl[k], clock)})

\* the workspace and session keys a caller may ask for
Workspaces == {"w1", "w2"}

Sessions == {"s1", "s2"}

\* find_by_workspace_id with WHERE session_id = $1
FindByWorkspaceIdWrongKey(tbl, clock, workspace) ==
    LET Selected(row) == row.session_id = Some(workspace) /\ NotExpired(row, clock)
    IN OrderByCreatedAtAsc(SelectSeq(tbl, Selected))

\* TaskBuildHistory::find_by_workspace_id; a row without workspace (NULL)
\* equals no argument
FindByWorkspaceId(tbl, clock, workspace) ==
    LET Selected(row) == row.workspace_id = Some(workspace) /\ NotExpired(row, clock)
    IN OrderByCreatedAtAsc(SelectSeq(tbl, Selected))

\* TaskBuildHistory::find_by_session_id
FindBySessionId(tbl, clock, session) ==
    LET Selected(row) == row.session_id = Some(session) /\ NotExpired(row, clock)
    IN OrderByCreatedAtAsc(SelectSeq(tbl, Selected))

\* the least and the greatest of a non-empty set of instants
Min(S) == CHOOSE m \in S : \A x \in S : m <= x

Max(S) == CHOOSE m \in S : \A x \in S : m >= x

\* get_oldest_entry_date with SELECT MAX(created_at)
GetNewestEntryDate(tbl, clock, task) ==
    LET dates == { tbl[k].created_at : k \in { j \in DOMAIN tbl :
                       tbl[j].task_id = task /\ NotExpired(tbl[j], clock) } }
    IN IF dates = {} THEN None ELSE Some(Max(dates))

\* TaskBuildHistory::get_oldest_entry_date: SELECT MIN(created_at), NULL over
\* no row
GetOldestEntryDate(tbl, clock, task) ==
    LET dates == { tbl[k].created_at : k \in { j \in DOMAIN tbl :
                       tbl[j].task_id = task /\ NotExpired(tbl[j], clock) } }
    IN IF dates = {} THEN None ELSE Some(Min(dates))

\* the insert trigger: delete the rows of the task beyond the cap, oldest first
\* by creation order
EnforceCap(tbl, task) ==
    LET mine == {k \in DOMAIN tbl : tbl[k].task_id = task}
        over == {tbl[k].id : k \in {i \in mine :
                   Cardinality({j \in mine : j > i}) >= MaxEntriesPerTask}}
        Kept(row) == row.id \notin over
    IN IF Cardinality(mine) <= MaxEntriesPerTask THEN tbl
       ELSE SelectSeq(tbl, Kept)

\* ------------------------------------------------------------------------
\* TaskBuildHistory store: operations
\* ------------------------------------------------------------------------

\* create that evicts as soon as the task reaches the cap, not beyond it
CreateCapOneLess(data) ==
    /\ creates < MaxCreates
    /\ LET row == TaskBuildHistory(nextId, data, now)
           tbl == Append(table, row)
           mine == {k \in DOMAIN tbl : tbl[k].task_id = data.task_id}
           over == {tbl[k].id : k \in {i \in mine :
                      Cardinality({j \in mine : j > i}) >= MaxEntriesPerTask - 1}}
           Kept(r) == r.id \notin over
       IN /\ table' = SelectSeq(tbl, Kept)
          /\ storeResult' = StoreRet("create", data.task_id, Some(row), 0)
    /\ nextId' = nextId + 1
    /\ creates' = creates + 1
    /\ UNCHANGED now
    /\ UNCHANGED << flowVars, writerVars, reviewVars, clientVars >>

\* create that also renews the expiry of the entries the task already has
CreateRenewing(data) ==
    /\ creates < MaxCreates
    /\ LET row == TaskBuildHistory(nextId, data, now)
           renewed == [k \in DOMAIN table |->
                         IF table[k].task_id = data.task_id
                         THEN [table[k] EXCEPT !.expires_at = row.expires_at]
                         ELSE table[k]]
       IN /\ table' = EnforceCap(Append(renewed, row), data.task_id)
          /\ storeResult' = StoreRet("create", data.task_id, Some(row), 0)
    /\ nextId' = nextId + 1
    /\ creates' = creates + 1
    /\ UNCHANGED now
    /\ UNCHANGED << flowVars, writerVars, reviewVars, clientVars >>

\* TaskBuildHistory::create: the INSERT and, in the same statement, the trigger
Create(data) ==
    /\ creates < MaxCreates
    /\ LET row == TaskBuildHistory(nextId, data, now)
       IN /\ table' = EnforceCap(Append(table, row), data.task_id)
          /\ storeResult' = StoreRet("create", data.task_id, Some(row), 0)
    /\ nextId' = nextId + 1
    /\ creates' = creates + 1
    /\ UNCHANGED now
    /\ UNCHANGED << flowVars, writerVars, reviewVars, clientVars >>

\* cleanup_expired that deletes one expired row per call
CleanupExpiredOneRow ==
    /\ LET gone == { k \in DOMAIN table : Expired(table[k], now) }
           first == IF gone = {} THEN 0 ELSE Min(gone)
           Kept(row) == first = 0 \/ row.id # table[first].id
       IN /\ table' = SelectSeq(table, Kept)
          /\ storeResult' = StoreRet("cleanup_expired", "", None,
                                     IF first = 0 THEN 0 ELSE 1)
    /\ UNCHANGED << now, nextId, creates >>
    /\ UNCHANGED << flowVars, writerVars, reviewVars, clientVars >>

\* TaskBuildHistory::cleanup_expired
CleanupExpired ==
    /\ LET Kept(row) == ~Expired(row, now)
       IN /\ table' = SelectSeq(table, Kept)
          /\ storeResult' = StoreRet("cleanup_expired", "", None,
                                     Len(table) - Len(SelectSeq(table, Kept)))
    /\ UNCHANGED << now, nextId, creates >>
    /\ UNCHANGED << flowVars, writerVars, reviewVars, clientVars >>

\* delete_by_task_id with the expiry filter of the reads in its WHERE
DeleteByTaskIdVisibleOnly(task) ==
    /\ LET Kept(row) == row.task_id # task \/ ~NotExpired(row, now)
       IN /\ table' = SelectSeq(table, Kept)
          /\ storeResult' = StoreRet("delete_by_task_id", task, None,
                                     Len(table) - Len(SelectSeq(table, Kept)))
    /\ UNCHANGED << now, nextId, creates >>
    /\ UNCHANGED << flowVars, writerVars, reviewVars, clientVars >>

\* delete_by_task_id that also removes the rows of the workspaces the task
\* has written to
DeleteByTaskIdAndWorkspace(task) ==
    /\ LET shared == { table[k].workspace_id :
                         k \in { j \in DOMAIN table : table[j].task_id = task } }
                         \ {None}
           Kept(row) == row.task_id # task /\ row.workspace_id \notin shared
       IN /\ table' = SelectSeq(table, Kept)
          /\ storeResult' = StoreRet("delete_by_task_id", task, None,
                                     Len(table) - Len(SelectSeq(table, Kept)))
    /\ UNCHANGED << now, nextId, creates >>
    /\ UNCHANGED << flowVars, writerVars, reviewVars, clientVars >>

\* TaskBuildHistory::delete_by_task_id
DeleteByTaskId(task) ==
    /\ LET Kept(row) == row.task_id # task
       IN /\ table' = SelectSeq(table, Kept)
          /\ storeResult' = StoreRet("delete_by_task_id", task, None,
                                     Len(table) - Len(SelectSeq(table, Kept)))
    /\ UNCHANGED << now, nextId, creates >>
    /\ UNCHANGED << flowVars, writerVars, reviewVars, clientVars >>

\* the clock advances
Tick ==
    /\ now < MaxTime
    /\ now' = now + 1
    /\ UNCHANGED << table, nextId, creates, storeResult >>
    /\ UNCHANGED << flowVars, writerVars, reviewVars, clientVars >>

\* the flow manager while only the store runs
FlowIdle ==
    /\ manager = "Code"
    /\ summary = None
    /\ result = NoResult
    /\ pc = "idle"
    /\ idx = 1
    /\ runner = Runner(manager)
    /\ origin = "none"
    /\ fresh = FALSE
    /\ lastExec = None
    /\ prevExec = None

\* a store in which task t1 already holds Preload entries, created at instant 0
Preloaded ==
    [k \in 1..Preload |->
        TaskBuildHistory(k, CreateTaskBuildHistory("t1", None, None, "chat_message",
                                                   "Message", None), 0)]

\* the store before any operation of the run: empty, or in use
StoreInit ==
    /\ table \in {<< >>, Preloaded}
    /\ now = 0
    /\ nextId = Len(table) + 1
    /\ creates = 0
    /\ storeResult = NoStoreResult
    /\ FlowIdle
    /\ WritersIdle
    /\ ReviewIdle
    /\ ClientIdle

StoreNext ==
    \/ \E data \in CreateInputs : Create(data)
    \/ CleanupExpired
    \/ \E task \in Tasks : DeleteByTaskId(task)
    \/ Tick

\* create, entered by caller w: the id is minted (let id = Uuid::new_v4()) and
\* the statement is not yet sent
CreateBegin(w, data) ==
    /\ creates < MaxCreates
    /\ writers[w].pc = "idle"
    /\ writers' = [writers EXCEPT ![w] = [pc |-> "minted", id |-> nextId,
                                          data |-> Some(data)]]
    /\ nextId' = nextId + 1
    /\ creates' = creates + 1
    /\ UNCHANGED << table, now, storeResult >>
    /\ UNCHANGED << flowVars, reviewVars, clientVars >>

\* the INSERT of caller w alone: the row is stored, and bringing the task back
\* under the cap is left to a statement of its own
CreateInsertThenEvict(w) ==
    /\ writers[w].pc = "minted"
    /\ LET data == writers[w].data[1]
           row == TaskBuildHistory(writers[w].id, data, now)
       IN /\ table' = Append(table, row)
          /\ storeResult' = StoreRet("create", data.task_id, Some(row), 0)
    /\ writers' = [writers EXCEPT ![w] = [@ EXCEPT !.pc = "evict"]]
    /\ UNCHANGED << now, nextId, creates >>
    /\ UNCHANGED << flowVars, reviewVars, clientVars >>

\* the INSERT ... RETURNING of caller w: one statement, in which the database
\* stores the row, runs the insert trigger and hands the row back
CreateInsert(w) ==
    /\ writers[w].pc = "minted"
    /\ LET data == writers[w].data[1]
           row == TaskBuildHistory(writers[w].id, data, now)
       IN /\ table' = EnforceCap(Append(table, row), data.task_id)
          /\ storeResult' = StoreRet("create", data.task_id, Some(row), 0)
    /\ writers' = [writers EXCEPT ![w] = IdleWriter]
    /\ UNCHANGED << now, nextId, creates >>
    /\ UNCHANGED << flowVars, reviewVars, clientVars >>

\* what the concurrent callers pass: entries of one and the same task
WriterInputs == { data \in CreateInputs : data.task_id = "t1" }

\* the store before concurrent callers of create start
WriterInit ==
    /\ table \in {<< >>, Preloaded}
    /\ now = 0
    /\ nextId = Len(table) + 1
    /\ creates = 0
    /\ storeResult = NoStoreResult
    /\ WritersIdle
    /\ FlowIdle
    /\ ReviewIdle
    /\ ClientIdle

\* the callers' steps in any interleaving, while time passes
WriterNext ==
    \/ \E w \in Writers, data \in WriterInputs : CreateBegin(w, data)
    \/ \E w \in Writers : CreateInsert(w)
    \/ Tick

\* ExecutorProfileId: the executor and an optional variant
ExecutorProfileId(executor, variant) == [executor |-> executor, variant |-> variant]

ProfileIds ==
    { ExecutorProfileId("CLAUDE_CODE", None),
      ExecutorProfileId("CLAUDE_CODE", Some("PLAN")),
      ExecutorProfileId("AMP", Some("GHOST")) }

\* the profiles ExecutorConfigs::get_cached() holds a coding agent for
Registry ==
    { ExecutorProfileId("CLAUDE_CODE", None),
      ExecutorProfileId("CLAUDE_CODE", Some("PLAN")) }

\* executor_profile_id.to_string()
ProfileToString(id) ==
    IF id.variant = None THEN id.executor ELSE id.executor \o ":" \o id.variant[1]

\* Path::new of a string: a leading separator makes the path absolute, the
\* separators split it into components
ParsePath(text) ==
    CASE text = "" -> PathOf(FALSE, << >>)
      [] text = "sub" -> PathOf(FALSE, << "sub" >>)
      [] text = "a/b" -> PathOf(FALSE, << "a", "b" >>)
      [] text = "../up" -> PathOf(FALSE, << "..", "up" >>)
      [] text = "/etc" -> PathOf(TRUE, << "etc" >>)

\* the strings a working_dir is given
WorkingDirs == { "", "sub", "a/b", "../up", "/etc" }

\* the directories spawn is called with
BaseDirs == { PathOf(TRUE, << "work" >>), PathOf(TRUE, << "work", "repo" >>) }

\* Path::join: an absolute argument replaces the path it is joined to, a
\* relative one is appended component by component
Join(base, path) ==
    IF path.absolute THEN path
    ELSE PathOf(base.absolute, base.components \o path.components)

\* the approval services a caller may pass (each an Arc, compared by instance)
Approvals == { "gateA", "gateB" }

ExecutionEnvs == { "env" }

TaskDescriptions == { "", "Add login" }

\* build_review_prompt: the fixed text with the task description in its place
BuildReviewPrompt(task_description) ==
    << "# Code Review Task", task_description, "## Your Review Process",
       "4. **Provide Structured Feedback**",
       "- You are in READ-ONLY review mode - DO NOT modify any code",
       "Begin your review now." >>

\* struct ReviewAgentRequest
ReviewAgentRequest(prompt, executor_profile_id, working_dir) ==
    [prompt |-> prompt, executor_profile_id |-> executor_profile_id,
     working_dir |-> working_dir]

\* Option<String> values of working_dir
WorkingDirOptions == {None} \cup { Some(text) : text \in WorkingDirs }

\* a request assembled through the public fields, with a prompt of the
\* caller's own
HandBuiltRequests ==
    { ReviewAgentRequest(<< "Apply the fix" >>, id, None) : id \in ProfileIds }

TheRequest == request[1]

\* a call the action makes on the registry or on the agent it resolved
Event(op, profile, approvals, dir, prompt, env, outcome) ==
    [op |-> op, agent |-> profile, approvals |-> approvals, dir |-> dir,
     prompt |-> prompt, env |-> env, result |-> outcome]

\* what agent.spawn may hand back: a child, or an error of its own
ExecutorOutcomes ==
    { SpawnRet("Ok", "", "", "child"),
      SpawnRet("Err", "SpawnError", "failed to start", "") }

\* new that keeps the task description itself as the prompt
ReviewNewRawPrompt(executor_profile_id, task_description, working_dir) ==
    /\ rpc = "idle"
    /\ request' = Some(ReviewAgentRequest(<< task_description >>,
                                          executor_profile_id, working_dir))
    /\ call' = NoCall
    /\ effectiveDir' = NoPath
    /\ agent' = None
    /\ events' = << >>
    /\ spawnResult' = NoSpawnResult
    /\ UNCHANGED rpc
    /\ UNCHANGED << flowVars, storeVars, writerVars, clientVars >>

\* ReviewAgentRequest::new
ReviewNew(executor_profile_id, task_description, working_dir) ==
    /\ rpc = "idle"
    /\ request' = Some(ReviewAgentRequest(BuildReviewPrompt(task_description),
                                          executor_profile_id, working_dir))
    /\ call' = NoCall
    /\ effectiveDir' = NoPath
    /\ agent' = None
    /\ events' = << >>
    /\ spawnResult' = NoSpawnResult
    /\ UNCHANGED rpc
    /\ UNCHANGED << flowVars, storeVars, writerVars, clientVars >>

\* spawn, entered: effective_dir is settled from working_dir and current_dir
SpawnBegin(current_dir, approvals, env) ==
    /\ rpc = "idle"
    /\ request # None
    /\ call' = [current_dir |-> current_dir, approvals |-> approvals, env |-> env]
    /\ effectiveDir' = IF TheRequest.working_dir # None
                       THEN Join(current_dir, ParsePath(TheRequest.working_dir[1]))
                       ELSE current_dir
    /\ agent' = None
    /\ events' = << >>
    /\ spawnResult' = NoSpawnResult
    /\ rpc' = "resolve"
    /\ UNCHANGED request
    /\ UNCHANGED << flowVars, storeVars, writerVars, clientVars >>

\* the lookup, with an agent of the first registered profile standing in when
\* the profile is not registered
GetCodingAgentOrDefault ==
    /\ rpc = "resolve"
    /\ LET id == TheRequest.executor_profile_id
           found == IF id \in Registry THEN id
                    ELSE ExecutorProfileId("CLAUDE_CODE", None)
       IN /\ agent' = Some([profile |-> found, approvals |-> None])
          /\ events' = Append(events, Event("get_coding_agent", found, None,
                                            NoPath, << >>, "", NoSpawnResult))
    /\ rpc' = "bind"
    /\ UNCHANGED << request, call, effectiveDir, spawnResult >>
    /\ UNCHANGED << flowVars, storeVars, writerVars, clientVars >>

\* ExecutorConfigs::get_cached().get_coding_agent(&executor_profile_id), and
\* the early return of UnknownExecutorType when it finds none
GetCodingAgent ==
    /\ rpc = "resolve"
    /\ LET id == TheRequest.executor_profile_id
       IN IF id \in Registry
          THEN /\ agent' = Some([profile |-> id, approvals |-> None])
               /\ events' = Append(events, Event("get_coding_agent", id, None,
                                                 NoPath, << >>, "", NoSpawnResult))
               /\ rpc' = "bind"
               /\ UNCHANGED spawnResult
          ELSE /\ spawnResult' = SpawnRet("Err", "UnknownExecutorType",
                                          ProfileToString(id), "")
               /\ rpc' = "idle"
               /\ UNCHANGED << agent, events >>
    /\ UNCHANGED << request, call, effectiveDir >>
    /\ UNCHANGED << flowVars, storeVars, writerVars, clientVars >>

\* the agent is given an approval service of the action's own making
UseApprovalsOwnGate ==
    /\ rpc = "bind"
    /\ agent' = Some([agent[1] EXCEPT !.approvals = Some("auto")])
    /\ events' = Append(events, Event("use_approvals", agent[1].profile, Some("auto"),
                                      NoPath, << >>, "", NoSpawnResult))
    /\ rpc' = "spawn"
    /\ UNCHANGED << request, call, effectiveDir, spawnResult >>
    /\ UNCHANGED << flowVars, storeVars, writerVars, clientVars >>

\* agent.use_approvals(approvals.clone()): the clone of an Arc is the same
\* instance
UseApprovals ==
    /\ rpc = "bind"
    /\ agent' = Some([agent[1] EXCEPT !.approvals = Some(call.approvals)])
    /\ events' = Append(events, Event("use_approvals", agent[1].profile,
                                      Some(call.approvals), NoPath, << >>, "",
                                      NoSpawnResult))
    /\ rpc' = "spawn"
    /\ UNCHANGED << request, call, effectiveDir, spawnResult >>
    /\ UNCHANGED << flowVars, storeVars, writerVars, clientVars >>

\* agent.spawn(&effective_dir, &self.prompt, env).await, its value the value of
\* the call
AgentSpawn(outcome) ==
    /\ rpc = "spawn"
    /\ events' = Append(events, Event("spawn", agent[1].profile, agent[1].approvals,
                                      effectiveDir, TheRequest.prompt, call.env,
                                      outcome))
    /\ spawnResult' = outcome
    /\ rpc' = "idle"
    /\ UNCHANGED << request, call, effectiveDir, agent >>
    /\ UNCHANGED << flowVars, storeVars, writerVars, clientVars >>

\* before the first call: no request, or one the caller assembled
ReviewInit ==
    /\ request \in {None} \cup { Some(r) : r \in HandBuiltRequests }
    /\ rpc = "idle"
    /\ call = NoCall
    /\ effectiveDir = NoPath
    /\ agent = None
    /\ events = << >>
    /\ spawnResult = NoSpawnResult
    /\ FlowIdle
    /\ StoreIdle
    /\ WritersIdle
    /\ ClientIdle

ReviewNext ==
    \/ \E id \in ProfileIds, text \in TaskDescriptions, dir \in WorkingDirOptions :
          ReviewNew(id, text, dir)
    \/ \E dir \in BaseDirs, approvals \in Approvals, env \in ExecutionEnvs :
          SpawnBegin(dir, approvals, env)
    \/ GetCodingAgent
    \/ UseApprovals
    \/ \E outcome \in ExecutorOutcomes : AgentSpawn(outcome)

\* the identifier of an enum variant, letter by letter
Ident(variant) ==
    CASE variant = "Code" -> << "C", "o", "d", "e" >>
      [] variant = "Jira" -> << "J", "i", "r", "a" >>
      [] variant = "Confluence" ->
           << "C", "o", "n", "f", "l", "u", "e", "n", "c", "e" >>
      [] variant = "Pending" -> << "P", "e", "n", "d", "i", "n", "g" >>
      [] variant = "InProgress" ->
           << "I", "n", "P", "r", "o", "g", "r", "e", "s", "s" >>
      [] variant = "Completed" ->
           << "C", "o", "m", "p", "l", "e", "t", "e", "d" >>
      [] variant = "Failed" -> << "F", "a", "i", "l", "e", "d" >>

UpperCase == { "C", "F", "I", "J", "P" }

\* a letter in lower case
Lower(letter) ==
    CASE letter = "C" -> "c"
      [] letter = "F" -> "f"
      [] letter = "I" -> "i"
      [] letter = "J" -> "j"
      [] letter = "P" -> "p"
      [] OTHER -> letter

\* the letters written one after the other
RECURSIVE Spell(_)
Spell(letters) ==
    IF letters = << >> THEN "" ELSE Head(letters) \o Spell(Tail(letters))

\* #[serde(rename_all = "snake_case")]: words split at capitals, joined by _
RenameAllSnakeCase(variant) ==
    LET letters == Ident(variant)
        Part(k) == IF k > 1 /\ letters[k] \in UpperCase
                   THEN "_" \o Lower(letters[k])
                   ELSE Lower(letters[k])
    IN Spell([k \in DOMAIN letters |-> Part(k)])

\* #[serde(rename_all = "lowercase")]: the variant's identifier in lower case
RenameAll(variant) ==
    LET letters == Ident(variant)
    IN Spell([k \in DOMAIN letters |-> Lower(letters[k])])

\* derive(Serialize) of a unit variant: its renamed identifier
Serialize(variant) == RenameAll(variant)

\* Result of derive(Deserialize): the variant, or an error
WireRet(tag, value) == [tag |-> tag, value |-> value]

\* derive(Deserialize) of an enum: the variant whose renamed identifier is the
\* text, else the error unknown variant
Deserialize(variants, text) ==
    LET hits == { v \in variants : RenameAll(v) = text }
    IN IF hits = {} THEN WireRet("Err", None)
       ELSE WireRet("Ok", Some(CHOOSE v \in hits : TRUE))

\* the intent and the action statuses of a FlowSummary, as they go on the wire
RECURSIVE StatusLists(_)
StatusLists(n) ==
    IF n = 0 THEN { << >> }
    ELSE StatusLists(n - 1) \cup
         { Append(list, status) :
             list \in { l \in StatusLists(n - 1) : Len(l) = n - 1 },
             status \in FlowActionStatus }

WireValues ==
    { [intent |-> intent, statuses |-> statuses] :
        intent \in FlowIntent, statuses \in StatusLists(MaxWireActions) }

\* texts that are no serialized form of a variant
ForeignTexts == { "Code", "JIRA", "in_progress", "InProgress", "done" }

\* serde_json::to_string of a summary: each enum field as its text
WireSerialize(value) ==
    /\ sent' = Some(value)
    /\ wire' = Some([intent |-> Serialize(value.intent),
                     statuses |-> [k \in DOMAIN value.statuses |->
                                     Serialize(value.statuses[k])]])
    /\ received' = None
    /\ UNCHANGED << flowVars, storeVars, writerVars, reviewVars, jiraVars,
                    portfolioVars >>

\* a text of another producer arrives in place of a status
WireForeign(text) ==
    /\ wire # None
    /\ received = None
    /\ Len(wire[1].statuses) > 0
    /\ wire[1].statuses[1] \notin ForeignTexts
    /\ wire' = Some([wire[1] EXCEPT !.statuses[1] = text])
    /\ sent' = None
    /\ UNCHANGED received
    /\ UNCHANGED << flowVars, storeVars, writerVars, reviewVars, jiraVars,
                    portfolioVars >>

\* serde_json::from_str of the text on the wire: every field must deserialize
WireDeserialize ==
    /\ wire # None
    /\ received = None
    /\ LET intent == Deserialize(FlowIntent, wire[1].intent)
           statuses == [k \in DOMAIN wire[1].statuses |->
                          Deserialize(FlowActionStatus, wire[1].statuses[k])]
           failed == \/ intent.tag = "Err"
                     \/ \E k \in DOMAIN statuses : statuses[k].tag = "Err"
       IN received' = Some(IF failed THEN WireRet("Err", None)
                           ELSE WireRet("Ok", Some(
                                  [intent |-> intent.value[1],
                                   statuses |-> [k \in DOMAIN statuses |->
                                                   statuses[k].value[1]]])))
    /\ UNCHANGED << sent, wire >>
    /\ UNCHANGED << flowVars, storeVars, writerVars, reviewVars, jiraVars,
                    portfolioVars >>

\* nothing serialized yet
WireInit ==
    /\ WireIdle
    /\ JiraIdle
    /\ PortfolioIdle
    /\ FlowIdle
    /\ StoreIdle
    /\ WritersIdle
    /\ ReviewIdle

WireNext ==
    \/ \E value \in WireValues : WireSerialize(value)
    \/ \E text \in ForeignTexts : WireForeign(text)
    \/ WireDeserialize

\* the strings of at most n characters over h and /
RECURSIVE UrlsUpTo(_)
UrlsUpTo(n) ==
    IF n = 0 THEN { << >> }
    ELSE UrlsUpTo(n - 1) \cup
         { Append(url, ch) : url \in { u \in UrlsUpTo(n - 1) : Len(u) = n - 1 },
                             ch \in { "h", "/" } }

BaseUrls == UrlsUpTo(MaxUrlLen)

Emails == { "", "user@example.com", "a@b" }

ApiTokens == { "", "test_token", "t" }

\* Client::builder().timeout(..).build(): a client, or the builder's error
BuilderOutcomes == { "Ok", "Err" }

\* strip_suffix('/'): one trailing / removed
TrimOneSlash(url) ==
    IF url # << >> /\ url[Len(url)] = "/" THEN SubSeq(url, 1, Len(url) - 1) ELSE url

\* trim_end_matches('/'): every trailing / removed
RECURSIVE TrimEndMatches(_)
TrimEndMatches(url) ==
    IF url # << >> /\ url[Len(url)] = "/"
    THEN TrimEndMatches(SubSeq(url, 1, Len(url) - 1))
    ELSE url

\* struct JiraClient, without the HTTP client it holds
JiraClient(base_url, email, api_token) ==
    [base_url |-> base_url, email |-> email, api_token |-> api_token]

InvalidConfig(message) == JiraRet("Err", "InvalidConfig", message, None)

\* JiraClient::new
JiraClientNew(base_url, email, api_token, built) ==
    /\ jiraArgs' = Some(JiraClient(base_url, email, api_token))
    /\ jiraResult' =
          IF base_url = << >> THEN InvalidConfig("Base URL cannot be empty")
          ELSE IF email = "" THEN InvalidConfig("Email cannot be empty")
          ELSE IF api_token = "" THEN InvalidConfig("API token cannot be empty")
          ELSE IF built = "Err" THEN InvalidConfig("Failed to create HTTP client")
          ELSE JiraRet("Ok", "", "",
                       Some(JiraClient(TrimEndMatches(base_url), email, api_token)))
    /\ UNCHANGED << flowVars, storeVars, writerVars, reviewVars, wireVars,
                    portfolioVars >>

\* JiraClient::new was never called
JiraInit ==
    /\ JiraIdle
    /\ WireIdle
    /\ PortfolioIdle
    /\ FlowIdle
    /\ StoreIdle
    /\ WritersIdle
    /\ ReviewIdle

JiraNext ==
    \E base_url \in BaseUrls, email \in Emails, api_token \in ApiTokens,
       built \in BuilderOutcomes :
        JiraClientNew(base_url, email, api_token, built)

\* ------------------------------------------------------------------------
\* Portfolio: types and operations
\* ------------------------------------------------------------------------

\* struct Portfolio (the columns create and update write)
Portfolio(id, name, description, theme) ==
    [id |-> id, name |-> name, description |-> description, theme |-> theme]

\* struct CreatePortfolio
CreatePortfolio(name, description, theme) ==
    [name |-> name, description |-> description, theme |-> theme]

\* struct UpdatePortfolio
UpdatePortfolio(name, description, theme) ==
    [name |-> name, description |-> description, theme |-> theme]

\* the bodies of POST /portfolios
CreatePayloads ==
    { CreatePortfolio("Site", Some("Intro"), None) }

\* the bodies of PATCH /portfolios/{id}: each sets one field and leaves the
\* other two out
UpdatePayloads ==
    { UpdatePortfolio(Some("Renamed"), None, None),
      UpdatePortfolio(None, Some("Text"), None),
      UpdatePortfolio(None, None, Some("dark")) }

\* Option::unwrap_or / Option::or: the payload's value when it has one
OrElse(given, stored) == IF given # None THEN given ELSE stored

\* Portfolio::create: INSERT ... RETURNING under a new Uuid
PortfolioCreate(id, data) ==
    /\ portfolios[id] = None
    /\ LET row == Portfolio(id, data.name, data.description, data.theme)
       IN /\ portfolios' = [portfolios EXCEPT ![id] = Some(row)]
          /\ portfolioResult' = PortfolioRet("create", "", "Ok", Some(row))
    /\ UNCHANGED updaters
    /\ UNCHANGED << flowVars, storeVars, writerVars, reviewVars, wireVars, jiraVars >>

\* Portfolio::delete: DELETE ... WHERE id = $1, rows_affected
PortfolioDelete(id) ==
    /\ portfolios' = [portfolios EXCEPT ![id] = None]
    /\ portfolioResult' = PortfolioRet("delete", "",
                              IF portfolios[id] = None THEN "0" ELSE "1", None)
    /\ UNCHANGED updaters
    /\ UNCHANGED << flowVars, storeVars, writerVars, reviewVars, wireVars, jiraVars >>

\* Portfolio::update, first statement:
\* let existing = Self::find_by_id(pool, id).await?.ok_or(RowNotFound)?
UpdateFindById(u, id, payload) ==
    /\ updaters[u].pc = "idle"
    /\ IF portfolios[id] = None
       THEN /\ portfolioResult' = PortfolioRet("update", u, "RowNotFound", None)
            /\ UNCHANGED updaters
       ELSE /\ updaters' = [updaters EXCEPT ![u] =
                               [pc |-> "found", id |-> id, payload |-> Some(payload),
                                existing |-> portfolios[id]]]
            /\ UNCHANGED portfolioResult
    /\ UNCHANGED portfolios
    /\ UNCHANGED << flowVars, storeVars, writerVars, reviewVars, wireVars, jiraVars >>

\* Portfolio::update, second statement: UPDATE portfolios SET name = $2,
\* description = $3, theme = $4 WHERE id = $1 RETURNING ..., fetch_one
UpdateExecute(u) ==
    /\ updaters[u].pc = "found"
    /\ LET id == updaters[u].id
           payload == updaters[u].payload[1]
           existing == updaters[u].existing[1]
           name == OrElse(payload.name, Some(existing.name))[1]
           description == OrElse(payload.description, existing.description)
           theme == OrElse(payload.theme, existing.theme)
           row == Portfolio(id, name, description, theme)
       IN IF portfolios[id] = None
          THEN /\ portfolioResult' = PortfolioRet("update", u, "RowNotFound", None)
               /\ UNCHANGED portfolios
          ELSE /\ portfolios' = [portfolios EXCEPT ![id] = Some(row)]
               /\ portfolioResult' = PortfolioRet("update", u, "Ok", Some(row))
    /\ updaters' = [updaters EXCEPT ![u] = IdleUpdater]
    /\ UNCHANGED << flowVars, storeVars, writerVars, reviewVars, wireVars, jiraVars >>

\* an empty table and no request in flight
PortfolioInit ==
    /\ PortfolioIdle
    /\ WireIdle
    /\ JiraIdle
    /\ FlowIdle
    /\ StoreIdle
    /\ WritersIdle
    /\ ReviewIdle

PortfolioNext ==
    \/ \E id \in PortfolioIds, data \in CreatePayloads : PortfolioCreate(id, data)
    \/ \E id \in PortfolioIds : PortfolioDelete(id)
    \/ \E u \in Updaters, id \in PortfolioIds, payload \in UpdatePayloads :
          UpdateFindById(u, id, payload)
    \/ \E u \in Updaters : UpdateExecute(u)

FlowSpec == FlowInit /\ [][FlowNext]_vars

StoreSpec == StoreInit /\ [][StoreNext]_vars

WriterSpec == WriterInit /\ [][WriterNext]_vars

ReviewSpec == ReviewInit /\ [][ReviewNext]_vars

WireSpec == WireInit /\ [][WireNext]_vars

JiraSpec == JiraInit /\ [][JiraNext]_vars

PortfolioSpec == PortfolioInit /\ [][PortfolioNext]_vars

\* ------------------------------------------------------------------------
\* FlowManager: properties
\* ------------------------------------------------------------------------

\* the flow kind a create_*_flow operation builds
KindOf(op) ==
    CASE op = "create_code_flow" -> "Code"
      [] op = "create_jira_flow" -> "Jira"
      [] op = "create_confluence_flow" -> "Confluence"

CreateOps == {"create_code_flow", "create_jira_flow", "create_confluence_flow"}

\* the canonical templates of the specification's table (names, in order)
CanonicalNames(intent) ==
    CASE intent = "Code" ->
           << "Check Existing Code", "Create Issue", "Implement Solution",
              "Fix Issues", "Override Files" >>
      [] intent = "Jira" ->
           << "Read Title & Description", "Analyze Requirements",
              "Generate Task Proposal", "Review Jira", "Finalize" >>
      [] intent = "Confluence" ->
           << "Read Title & Description", "Analyze Documentation Needs",
              "Generate Documentation", "Review Confluence", "Finalize" >>

\* the names / statuses of an action list, in order
NamesOf(actions) == [k \in DOMAIN actions |-> actions[k].name]
StatusesOf(actions) == [k \in DOMAIN actions |-> actions[k].status]

\* a step that is a call of one of the create_*_flow operations
CreateStep == pc = "idle" /\ pc' = "idle" /\ result'.op \in CreateOps

\* an execute_flow call has just returned and nothing was called since
Returned == pc = "idle" /\ result.op = "execute_flow"

\* C1: create_K_flow on a manager bound to B # K returns Err(InvalidIntent),
\* carries no FlowSummary and leaves what the caller holds untouched.
C1_MismatchFails ==
    [][ (CreateStep /\ manager # KindOf(result'.op)) =>
          /\ result'.tag = "Err"
          /\ result'.error = "InvalidIntent"
          /\ result'.value = None
          /\ summary' = summary ]_vars

\* the case of test_invalid_intent_for_code: a Jira manager asked for a code flow
C1_Witness ==
    /\ result.op = "create_code_flow"
    /\ manager = "Jira"
    /\ result.tag = "Err"

\* C2: create_K_flow on a manager bound to K returns a summary of intent K with
\* exactly the five canonical names of K in table order, pairwise distinct, all Pending.
C2_CanonicalTemplate ==
    (result.op \in CreateOps /\ manager = KindOf(result.op)) =>
        /\ result.tag = "Ok"
        /\ Len(result.value) = 1
        /\ LET s == result.value[1]
           IN /\ s.intent = KindOf(result.op)
              /\ Len(s.actions) = 5
              /\ NamesOf(s.actions) = CanonicalNames(s.intent)
              /\ \A j, k \in 1..5 : j # k => s.actions[j].name # s.actions[k].name
              /\ \A k \in 1..5 : s.actions[k].status = "Pending"

\* a Jira manager has just built a Jira flow
C2_Witness ==
    /\ result.op = "create_jira_flow"
    /\ result.tag = "Ok"
    /\ summary = result.value

\* the first execute_flow call on a summary fresh from create_*_flow is running
FirstRun == fresh /\ pc # "idle"

\* C3 as stated: during one execute_flow call on a freshly created summary every
\* status change is Pending -> InProgress, InProgress -> Completed or
\* InProgress -> Failed.
C3_OnlyForwardTransitions ==
    [][ FirstRun =>
          \A k \in DOMAIN TheSummary.actions :
              \/ summary'[1].actions[k].status = TheSummary.actions[k].status
              \/ << TheSummary.actions[k].status, summary'[1].actions[k].status >>
                    \in { << "Pending", "InProgress" >>,
                          << "InProgress", "Completed" >>,
                          << "InProgress", "Failed" >> } ]_vars

\* C4 as stated: across execute_flow calls on the same summary a status that is
\* Completed or Failed never changes again (stated for the summaries
\* create_*_flow built, whose statuses only execute_flow has written).
C4_TerminalIsAbsorbing ==
    [][ (pc # "idle" /\ origin \in CreateOps) =>
          \A k \in DOMAIN TheSummary.actions :
              TheSummary.actions[k].status \in {"Completed", "Failed"} =>
                  summary'[1].actions[k].status = TheSummary.actions[k].status ]_vars

\* C5: execute_flow by a Code manager on a summary from create_code_flow returns
\* exactly 5 actions, all Completed, and the summary carries the same statuses.
C5_CodeAllCompleted ==
    (Returned /\ manager = "Code" /\ origin = "create_code_flow") =>
        /\ result.tag = "Ok"
        /\ Len(result.actions) = 5
        /\ \A k \in 1..5 : result.actions[k].status = "Completed"
        /\ StatusesOf(TheSummary.actions) = StatusesOf(result.actions)

\* a Code manager has executed the flow it created
C5_Witness ==
    /\ Returned
    /\ manager = "Code"
    /\ origin = "create_code_flow"
    /\ Len(result.actions) = 5

\* C6: execute_flow by a Jira (Confluence) manager on a summary from
\* create_jira_flow (create_confluence_flow) returns 5 actions, the first three
\* Completed, the review step and Finalize Pending.
C6_ReviewStaysPending ==
    (/\ Returned
     /\ \/ manager = "Jira" /\ origin = "create_jira_flow"
        \/ manager = "Confluence" /\ origin = "create_confluence_flow") =>
        /\ result.tag = "Ok"
        /\ Len(result.actions) = 5
        /\ \A k \in 1..3 : result.actions[k].status = "Completed"
        /\ \A k \in 4..5 : result.actions[k].status = "Pending"
        /\ result.actions[4].name \in {"Review Jira", "Review Confluence"}
        /\ result.actions[5].name = "Finalize"

\* a Jira manager has executed the flow it created
C6_Witness ==
    /\ Returned
    /\ manager = "Jira"
    /\ origin = "create_jira_flow"
    /\ result.actions[4].name = "Review Jira"
    /\ result.actions[4].status = "Pending"

\* the names of the template a manager of this intent knows
KnownNames(intent) == { CanonicalNames(intent)[k] : k \in 1..5 }

\* C7: execute_flow always returns Ok with every action of the summary; an
\* action whose name the manager's template does not know ends Failed, and
\* every action, also one after a Failed action, gets the outcome of its name.
C7_NeverFailsFast ==
    /\ result.op = "execute_flow" => result.tag = "Ok"
    /\ Returned =>
         /\ result.actions = TheSummary.actions
         /\ \A k \in DOMAIN TheSummary.actions :
               LET a == TheSummary.actions[k]
               IN /\ a.name \notin KnownNames(manager) => a.status = "Failed"
                  /\ a.name \in KnownNames(manager) =>
                        a.status \in {"Completed", "Pending"}
                  /\ a.status = Outcome(Runner(manager), a.name)

\* a hand-built summary whose first action failed and whose second completed
C7_Witness ==
    /\ Returned
    /\ origin = "hand"
    /\ Len(TheSummary.actions) = 2
    /\ TheSummary.actions[1].status = "Failed"
    /\ TheSummary.actions[2].status = "Completed"

\* C8: two execute_flow calls in a row by one manager on one summary return
\* equal lists and leave every action with the same status.
C8_Idempotent ==
    (lastExec # None /\ prevExec # None) =>
        /\ lastExec[1].returned = prevExec[1].returned
        /\ StatusesOf(lastExec[1].after) = StatusesOf(prevExec[1].after)

\* a second call in a row has returned, on a summary with a failed action
C8_Witness ==
    /\ lastExec # None
    /\ prevExec # None
    /\ pc = "idle"
    /\ \E k \in DOMAIN TheSummary.actions : TheSummary.actions[k].status = "Failed"

\* ------------------------------------------------------------------------
\* TaskBuildHistory store: properties
\* ------------------------------------------------------------------------

\* the last n elements of a sequence (all of it when it is no longer than n)
LastN(rows, n) ==
    IF Len(rows) <= n THEN rows ELSE SubSeq(rows, Len(rows) - n + 1, Len(rows))

\* a step that is a call of create
StoreCreateStep == creates' = creates + 1 /\ storeResult'.op = "create"

\* C9: after any operations and any passage of time, find_by_task_id returns at
\* most 100 entries and count_by_task_id is at most 100, for every task.
C9_RetentionCap ==
    \A task \in Tasks :
        /\ Len(FindByTaskId(table, now, task)) <= 100
        /\ CountByTaskId(table, now, task) <= 100

\* task t1 is at the cap and its first entry has already been evicted
C9_Witness ==
    /\ CountByTaskId(table, now, "t1") = 100
    /\ FindByTaskId(table, now, "t1")[1].id > 1

\* C10: a create makes the new entry the last visible one of its task and, past
\* the cap, drops the oldest visible entries by creation order: the visible
\* entries after the create are the 100 most recently created of the entries
\* visible before it plus the new one.
C10_FifoEviction ==
    [][ StoreCreateStep =>
          LET entry == storeResult'.entry[1]
              before == FindByTaskId(table, now, entry.task_id)
              after == FindByTaskId(table', now', entry.task_id)
          IN /\ after = LastN(Append(before, entry), 100)
             /\ after[Len(after)] = entry ]_vars

\* a create has just returned its entry and pushed out an older one of the task
C10_Witness ==
    /\ storeResult.op = "create"
    /\ storeResult.entry[1].created_at = now
    /\ LET mine == FindByTaskId(table, now, storeResult.entry[1].task_id)
       IN /\ Len(mine) = 100
          /\ mine[1].id > 1
          /\ mine[100] = storeResult.entry[1]

\* the entries of a task a reader can observe: those whose expiry has not
\* elapsed
Observed(task) ==
    { k \in DOMAIN table : table[k].task_id = task /\ ~(table[k].expires_at < now) }

\* C11: with callers of create interleaved in any order, the insert and the
\* eviction past the cap are one step: in no state, between or after the
\* callers' steps, does a reader observe more than 100 non-expired entries of
\* a task, through find_by_task_id or count_by_task_id.
C11_AtomicInsertEvict ==
    \A task \in Tasks :
        /\ Cardinality(Observed(task)) <= 100
        /\ Len(FindByTaskId(table, now, task)) = Cardinality(Observed(task))
        /\ CountByTaskId(table, now, task) = Cardinality(Observed(task))

\* one caller has inserted past the cap while the other is between minting its
\* id and sending its statement; the task holds 100 entries, the oldest gone
C11_Witness ==
    /\ storeResult.op = "create"
    /\ storeResult.arg = "t1"
    /\ \E w \in Writers :
          /\ writers[w].pc = "minted"
          /\ writers[w].data[1].task_id = "t1"
          /\ writers[w].id < storeResult.entry[1].id
    /\ Cardinality(Observed("t1")) = 100
    /\ \A k \in DOMAIN table : table[k].id # 1

\* the expiry of a row has elapsed
Elapsed(row) == row.expires_at < now

\* the table with the rows whose expiry has elapsed physically removed
Purged ==
    LET Live(row) == ~Elapsed(row) IN SelectSeq(table, Live)

\* a step that is a call of cleanup_expired
StoreCleanupStep ==
    /\ now' = now
    /\ creates' = creates
    /\ storeResult'.op = "cleanup_expired"

\* C12: an entry whose expiry has elapsed is in no result of find_by_task_id,
\* find_by_workspace_id or find_by_session_id, is not counted by
\* count_by_task_id and does not weigh on get_oldest_entry_date, whether or not
\* cleanup_expired has run: every read answers as on the table without those
\* rows. A cleanup_expired removes exactly those rows and reports their number.
C12_ExpiredInvisible ==
    /\ [](LET purged == Purged
              NoneElapsed(rows) == \A k \in DOMAIN rows : ~Elapsed(rows[k])
          IN /\ \A task \in Tasks :
                   LET found == FindByTaskId(table, now, task)
                       counted == CountByTaskId(table, now, task)
                   IN /\ NoneElapsed(found)
                      /\ found = FindByTaskId(purged, now, task)
                      /\ counted = CountByTaskId(purged, now, task)
                      /\ counted = Cardinality({ k \in DOMAIN table :
                             table[k].task_id = task /\ ~Elapsed(table[k]) })
                      /\ GetOldestEntryDate(table, now, task) =
                            GetOldestEntryDate(purged, now, task)
             /\ \A workspace \in Workspaces :
                   LET found == FindByWorkspaceId(table, now, workspace)
                   IN /\ NoneElapsed(found)
                      /\ found = FindByWorkspaceId(purged, now, workspace)
             /\ \A session \in Sessions :
                   LET found == FindBySessionId(table, now, session)
                   IN /\ NoneElapsed(found)
                      /\ found = FindBySessionId(purged, now, session))
    /\ [][ StoreCleanupStep =>
             /\ table' = Purged
             /\ storeResult'.affected = Len(table) - Len(Purged) ]_vars

\* a cleanup_expired has just removed rows and kept one that expires at this
\* very instant
C12_Witness ==
    /\ storeResult.op = "cleanup_expired"
    /\ storeResult.at = now
    /\ storeResult.affected > 0
    /\ \E k \in DOMAIN table : table[k].expires_at = now

\* rows holds each row of the table that Wanted selects, once, and no other row
ExactlyThose(rows, Wanted(_)) ==
    /\ { rows[k] : k \in DOMAIN rows } =
          { table[k] : k \in { j \in DOMAIN table : Wanted(table[j]) } }
    /\ Cardinality({ rows[k].id : k \in DOMAIN rows }) = Len(rows)

\* no entry stands before one created earlier than it
CreatedAscending(rows) ==
    \A k \in 1..(Len(rows) - 1) : rows[k].created_at <= rows[k + 1].created_at

C14_CleanupIdempotent ==
    [][ ( /\ storeResult.op = "cleanup_expired"
          /\ storeResult.at = now
          /\ StoreCleanupStep )
        => /\ storeResult'.affected = 0
           /\ table' = table ]_vars

\* the store after a cleanup_expired that found nothing to delete, at an
\* instant by which the entries created at instant 0 have expired and are
\* gone, with younger entries still stored
C14_Witness ==
    /\ storeResult.op = "cleanup_expired"
    /\ storeResult.at = now
    /\ storeResult.affected = 0
    /\ now > RetentionWindow
    /\ table # << >>
    /\ nextId > Len(table) + 1

\* a step that is a call of delete_by_task_id
StoreDeleteStep ==
    /\ now' = now
    /\ creates' = creates
    /\ storeResult'.op = "delete_by_task_id"

\* C15: delete_by_task_id(t) leaves no stored row of t, expired or not, and
\* returns how many rows of t were stored; right after it count_by_task_id(t)
\* is 0, find_by_task_id(t) is empty and get_oldest_entry_date(t) is nothing.
C15_DeleteByTask ==
    [][ StoreDeleteStep =>
          LET t == storeResult'.arg
          IN /\ \A k \in DOMAIN table' : table'[k].task_id # t
             /\ storeResult'.affected =
                   Cardinality({ k \in DOMAIN table : table[k].task_id = t })
             /\ CountByTaskId(table', now', t) = 0
             /\ FindByTaskId(table', now', t) = << >>
             /\ GetOldestEntryDate(table', now', t) = None ]_vars

\* delete_by_task_id has just removed 100 rows of t1 at an instant by which
\* those created at instant 0 had expired; a row of the other task is left
C15_Witness ==
    /\ storeResult.op = "delete_by_task_id"
    /\ storeResult.arg = "t1"
    /\ storeResult.at = now
    /\ now > RetentionWindow
    /\ storeResult.affected = 100
    /\ table # << >>

\* C16: every stored or returned entry expires strictly after it was created,
\* and no operation of the store changes a field of an entry that exists: an
\* entry stored after a step either was stored before it with the same fields
\* or is new (its id was not stored before).
C16_EntriesImmutable ==
    /\ [](/\ \A k \in DOMAIN table : table[k].expires_at > table[k].created_at
          /\ storeResult.entry # None =>
                storeResult.entry[1].expires_at > storeResult.entry[1].created_at)
    /\ [][ LET before == { table[k] : k \in DOMAIN table }
               ids == { table[k].id : k \in DOMAIN table }
           IN \A k \in DOMAIN table' :
                 table'[k] \in before \/ table'[k].id \notin ids ]_vars

\* a create has just added an entry to a task, at an instant later than 0,
\* while an entry of that task created at instant 0 still expires when it
\* always did
C16_Witness ==
    /\ storeResult.op = "create"
    /\ storeResult.at = now
    /\ now > 0
    /\ \E k \in DOMAIN table :
          /\ table[k].task_id = storeResult.arg
          /\ table[k].created_at = 0
          /\ table[k].expires_at = RetentionWindow
    /\ \E k \in DOMAIN table : table[k] = storeResult.entry[1]

\* C17: get_oldest_entry_date(t) is the least created_at among the entries of
\* t whose expiry has not elapsed, which is the created_at of the first entry
\* find_by_task_id(t) returns; it is nothing exactly when t has no such entry.
C17_OldestIsMinimum ==
    \A task \in Tasks :
        LET oldest == GetOldestEntryDate(table, now, task)
            found == FindByTaskId(table, now, task)
            live == Observed(task)
        IN /\ (oldest = None) <=> (live = {})
           /\ (oldest = None) <=> (found = << >>)
           /\ live # {} =>
                 /\ oldest = << found[1].created_at >>
                 /\ \A k \in live : oldest[1] <= table[k].created_at
                 /\ \E k \in live : oldest[1] = table[k].created_at

\* t1 stores an expired entry older than its oldest date and shows a younger
\* entry after it, while t2 has no entry to show
C17_Witness ==
    LET oldest == GetOldestEntryDate(table, now, "t1")
    IN /\ oldest # None
       /\ \E k \in DOMAIN table :
             /\ table[k].task_id = "t1"
             /\ table[k].created_at < oldest[1]
             /\ table[k].expires_at < now
       /\ \E k \in Observed("t1") : table[k].created_at > oldest[1]
       /\ GetOldestEntryDate(table, now, "t2") = None

\* the positions in events of the calls of op the current spawn has made
CallsOf(op) == { i \in DOMAIN events : events[i].op = op }

\* C18: spawn never calls the agent's spawn before binding the approval
\* service: every call of agent.spawn comes after a call of use_approvals on
\* the same agent with the very instance the caller passed; agent.spawn is
\* called at most once in a call of spawn, and what it hands back, child or
\* error, is what spawn returns.
C18_ApprovalsBoundBeforeSpawn ==
    /\ Cardinality(CallsOf("spawn")) <= 1
    /\ \A i \in CallsOf("spawn") :
          /\ \E j \in CallsOf("use_approvals") :
                /\ j < i
                /\ events[j].agent = events[i].agent
                /\ events[j].approvals = << call.approvals >>
          /\ i = Len(events)
          /\ rpc = "idle"
          /\ spawnResult = events[i].result
    /\ rpc = "spawn" => CallsOf("use_approvals") # {}

\* a call of spawn with gateB has returned the error agent.spawn produced
C18_Witness ==
    /\ rpc = "idle"
    /\ call # NoCall
    /\ call.approvals = "gateB"
    /\ CallsOf("spawn") # {}
    /\ spawnResult = SpawnRet("Err", "SpawnError", "failed to start", "")

\* C19: a profile the registry does not know makes spawn fail with
\* UnknownExecutorType carrying the profile id as a string, and in such a call
\* use_approvals and agent.spawn are never called.
C19_UnknownExecutorType ==
    ( /\ call # NoCall
      /\ TheRequest.executor_profile_id \notin Registry )
    => /\ CallsOf("use_approvals") = {}
       /\ CallsOf("spawn") = {}
       /\ agent = None
       /\ rpc \in {"resolve", "idle"}
       /\ rpc = "idle" =>
             spawnResult = SpawnRet("Err", "UnknownExecutorType",
                                    ProfileToString(TheRequest.executor_profile_id), "")

\* spawn has returned UnknownExecutorType for the profile AMP:GHOST
C19_Witness ==
    /\ rpc = "idle"
    /\ call # NoCall
    /\ spawnResult.tag = "Err"
    /\ spawnResult.error = "UnknownExecutorType"
    /\ spawnResult.message = "AMP:GHOST"
    /\ events = << >>

\* C20: for every directory spawn is called with and every working_dir, the
\* directory the agent is spawned in is the given directory when working_dir
\* is absent, and otherwise the given directory followed by the components of
\* working_dir.
C20_EffectiveDir ==
    \A i \in CallsOf("spawn") :
        IF TheRequest.working_dir = None
        THEN events[i].dir = call.current_dir
        ELSE events[i].dir =
               PathOf(call.current_dir.absolute,
                      call.current_dir.components \o
                        ParsePath(TheRequest.working_dir[1]).components)

\* a payload that is the generated review text for some task description: the
\* fixed header, the description, the structured-feedback request and the
\* read-only constraint
IsReviewText(payload) ==
    /\ Len(payload) = 6
    /\ payload[1] = "# Code Review Task"
    /\ payload[4] = "4. **Provide Structured Feedback**"
    /\ payload[5] = "- You are in READ-ONLY review mode - DO NOT modify any code"
    /\ payload = BuildReviewPrompt(payload[2])

WireSpelling ==
    [Code |-> "code", Jira |-> "jira", Confluence |-> "confluence",
     Pending |-> "pending", InProgress |-> "inprogress",
     Completed |-> "completed", Failed |-> "failed"]

\* C22: FlowIntent serializes and displays as code, jira, confluence and
\* FlowActionStatus serializes as pending, inprogress, completed, failed; no
\* two values share a spelling, deserializing a serialized value gives the
\* value back, and a summary read back from its own wire text has the intent
\* and statuses it was written with.
C22_WireSpelling ==
    /\ \A intent \in FlowIntent :
          /\ Serialize(intent) = WireSpelling[intent]
          /\ Display(intent) = WireSpelling[intent]
          /\ Deserialize(FlowIntent, Serialize(intent)) = WireRet("Ok", << intent >>)
    /\ \A status \in FlowActionStatus :
          /\ Serialize(status) = WireSpelling[status]
          /\ Deserialize(FlowActionStatus, Serialize(status)) =
                WireRet("Ok", << status >>)
    /\ \A v, w \in FlowIntent : Serialize(v) = Serialize(w) => v = w
    /\ \A v, w \in FlowActionStatus : Serialize(v) = Serialize(w) => v = w
    /\ wire # None /\ sent # None =>
          /\ wire[1].intent = WireSpelling[sent[1].intent]
          /\ \A k \in DOMAIN sent[1].statuses :
                wire[1].statuses[k] = WireSpelling[sent[1].statuses[k]]
    /\ received # None /\ sent # None => received[1] = WireRet("Ok", sent)

\* a Jira summary whose second action is InProgress was written as jira and
\* inprogress and read back as it was
C22_Witness ==
    /\ sent # None
    /\ received = << WireRet("Ok", sent) >>
    /\ sent[1].intent = "Jira"
    /\ Len(sent[1].statuses) = 2
    /\ sent[1].statuses[2] = "InProgress"
    /\ wire[1].intent = "jira"
    /\ wire[1].statuses[2] = "inprogress"

\* url with every trailing / removed is trimmed: trimmed is the start of url,
\* what follows it in url is / only, and trimmed does not end in /
AllTrailingSlashesRemoved(url, trimmed) ==
    /\ Len(trimmed) <= Len(url)
    /\ trimmed = SubSeq(url, 1, Len(trimmed))
    /\ \A k \in (Len(trimmed) + 1)..Len(url) : url[k] = "/"
    /\ trimmed = << >> \/ trimmed[Len(trimmed)] # "/"

\* the InvalidConfig the first empty argument of the call brings, if any
EmptyArgument(args) ==
    IF args.base_url = << >> THEN << InvalidConfig("Base URL cannot be empty") >>
    ELSE IF args.email = "" THEN << InvalidConfig("Email cannot be empty") >>
    ELSE IF args.api_token = "" THEN << InvalidConfig("API token cannot be empty") >>
    ELSE << >>

\* the call succeeded with the arguments it was given, base_url trimmed
Succeeded(args) ==
    /\ jiraResult.tag = "Ok"
    /\ jiraResult.client[1].email = args.email
    /\ jiraResult.client[1].api_token = args.api_token
    /\ AllTrailingSlashesRemoved(args.base_url, jiraResult.client[1].base_url)

\* C23: JiraClient::new fails with InvalidConfig when base_url, email or
\* api_token is empty, the first empty one in that order deciding the message,
\* and in every other case succeeds with a client whose base_url is the given
\* one with all trailing / removed.
C23_NewSucceedsUnlessEmpty ==
    jiraArgs # None =>
        IF EmptyArgument(jiraArgs[1]) # << >>
        THEN jiraResult = EmptyArgument(jiraArgs[1])[1]
        ELSE Succeeded(jiraArgs[1])

\* C23, amended: as above, except that with three non-empty arguments the
\* call may also fail with InvalidConfig when the HTTP client cannot be built.
C23_NewValidates ==
    jiraArgs # None =>
        IF EmptyArgument(jiraArgs[1]) # << >>
        THEN jiraResult = EmptyArgument(jiraArgs[1])[1]
        ELSE \/ Succeeded(jiraArgs[1])
             \/ jiraResult = InvalidConfig("Failed to create HTTP client")

\* a client was made from a base_url ending in two /, which are gone
C23_Witness ==
    /\ jiraArgs # None
    /\ jiraArgs[1].base_url = << "h", "/", "/" >>
    /\ jiraResult.tag = "Ok"
    /\ jiraResult.client[1].base_url = << "h" >>

\* the positions of the actions that are InProgress, among the positions ks
InProgressAmong(ks) ==
    { k \in ks \cap DOMAIN TheSummary.actions :
        TheSummary.actions[k].status = "InProgress" }

\* inside a call of execute_flow: the actions before the current one have the
\* outcome of this call, and the current one is InProgress once the loop body
\* has begun on it
VisitedHaveOutcome ==
    /\ idx \in 1..(Len(TheSummary.actions) + 1)
    /\ \A k \in 1..(idx - 1) :
          TheSummary.actions[k].status = Outcome(runner, TheSummary.actions[k].name)
    /\ pc = "match" => TheSummary.actions[idx].status = "InProgress"

CreatedWith ==
    { << data.task_id, data.content, data.context_type >> : data \in CreateInputs }

\* C25: while a task has had at most 100 entries created and none of them has
\* expired, find_by_task_id returns every one of them, with the task, content
\* and context type given to create and ids that differ, and
\* count_by_task_id returns their number; in every state count_by_task_id
\* equals the length of find_by_task_id.
C25_NoPrematureEviction ==
    /\ [](\A task \in Tasks :
            LET found == FindByTaskId(table, now, task)
            IN /\ CountByTaskId(table, now, task) = Len(found)
               /\ Cardinality({ found[k].id : k \in DOMAIN found }) = Len(found)
               /\ \A k \in DOMAIN found :
                     << found[k].task_id, found[k].content, found[k].context_type >>
                        \in CreatedWith)
    /\ [][ StoreCreateStep =>
             LET entry == storeResult'.entry[1]
                 IsMine(row) == row.task_id = entry.task_id
                 mine == SelectSeq(table, IsMine)
             IN ( /\ Len(mine) < 100
                  /\ \A k \in DOMAIN mine : mine[k].expires_at >= now )
                => /\ FindByTaskId(table', now', entry.task_id) = Append(mine, entry)
                   /\ CountByTaskId(table', now', entry.task_id) = Len(mine) + 1
                   /\ entry.task_id = storeResult'.arg ]_vars

\* the hundredth entry of t1 has just been created and the first one is still
\* returned
C25_Witness ==
    /\ storeResult.op = "create"
    /\ storeResult.arg = "t1"
    /\ storeResult.at = now
    /\ CountByTaskId(table, now, "t1") = 100
    /\ FindByTaskId(table, now, "t1")[1].id = 1
    /\ FindByTaskId(table, now, "t1")[100] = storeResult.entry[1]

\* C26: the status execute_flow leaves on an action is the outcome the runner
\* of the manager's bound intent gives to the action's name, whatever the
\* summary's intent, the action's position and its status before; an action
\* ends Failed exactly when its name is not in the manager's template. A Jira
\* manager on a summary of create_code_flow fails all five; on a summary of
\* create_confluence_flow it completes Read Title & Description, leaves
\* Finalize Pending and fails the other three.
C26_OutcomeByManagerAndName ==
    /\ [][ (pc = "match" /\ pc' = "loop") =>
             summary'[1].actions[idx].status =
                Outcome(Runner(manager), TheSummary.actions[idx].name) ]_vars
    /\ [](Returned =>
            /\ \A k \in DOMAIN result.actions :
                  result.actions[k].status = "Failed"
                     <=> result.actions[k].name \notin KnownNames(manager)
            /\ (manager = "Jira" /\ origin = "create_code_flow") =>
                  StatusesOf(result.actions) =
                     << "Failed", "Failed", "Failed", "Failed", "Failed" >>
            /\ (manager = "Jira" /\ origin = "create_confluence_flow") =>
                  /\ StatusesOf(result.actions) =
                        << "Completed", "Failed", "Failed", "Failed", "Pending" >>
                  /\ result.actions[1].name = "Read Title & Description"
                  /\ result.actions[5].name = "Finalize")

\* a Jira manager has executed a summary a Confluence manager created
C26_Witness ==
    /\ Returned
    /\ manager = "Jira"
    /\ origin = "create_confluence_flow"
    /\ TheSummary.intent = "Confluence"
    /\ TheSummary.actions[1].status = "Completed"
    /\ TheSummary.actions[2].status = "Failed"

\* a step of an execute_flow call: its entry, a step of its loop or its return
ExecuteStep == pc # "idle" \/ pc' # "idle"

\* the descriptions of an action list, in order
DescriptionsOf(actions) == [k \in DOMAIN actions |-> actions[k].description]

\* C27: execute_flow writes action statuses of the summary it is given and
\* nothing else: the summary's intent and description, the number and order of
\* its actions, their names and descriptions and the manager's bound intent
\* stay as they were, and so does every other value the caller holds (what
\* create_*_flow returned, the lists earlier calls returned); the list it
\* returns is the summary's action list as the call leaves it.
C27_OnlyStatusesChange ==
    /\ [][ ExecuteStep =>
             /\ manager' = manager
             /\ summary' # None
             /\ summary'[1].intent = TheSummary.intent
             /\ summary'[1].description = TheSummary.description
             /\ Len(summary'[1].actions) = Len(TheSummary.actions)
             /\ NamesOf(summary'[1].actions) = NamesOf(TheSummary.actions)
             /\ DescriptionsOf(summary'[1].actions) = DescriptionsOf(TheSummary.actions)
             /\ pc' # "idle" => (result' = result /\ lastExec' = lastExec
                                   /\ prevExec' = prevExec)
             /\ pc' = "idle" =>
                   /\ summary' = summary
                   /\ result'.tag = "Ok"
                   /\ result'.actions = summary'[1].actions
                   /\ lastExec'[1].returned = lastExec'[1].after
                   /\ prevExec' = lastExec ]_vars
    /\ [](Returned => result.actions = TheSummary.actions)

\* a Code manager has executed a summary a Jira manager created: every status
\* changed, title and names are those of create_jira_flow
C27_Witness ==
    /\ Returned
    /\ manager = "Code"
    /\ origin = "create_jira_flow"
    /\ TheSummary.intent = "Jira"
    /\ TheSummary.description = "Jira flow: Test"
    /\ NamesOf(TheSummary.actions) = CanonicalNames("Jira")
    /\ \A k \in 1..5 : result.actions[k].status = "Failed"

C29_FiltersPartition ==
    /\ [](\A k \in DOMAIN table :
             NotExpired(table[k], now) <=> ~Expired(table[k], now))
    /\ [][ StoreCleanupStep =>
             /\ LET Seen(row) == NotExpired(row, now)
                IN table' = SelectSeq(table, Seen)
             /\ \A task \in Tasks :
                   /\ FindByTaskId(table', now', task) = FindByTaskId(table, now, task)
                   /\ CountByTaskId(table', now', task) = CountByTaskId(table, now, task)
                   /\ GetOldestEntryDate(table', now', task)
                         = GetOldestEntryDate(table, now, task)
             /\ \A workspace \in Workspaces :
                   FindByWorkspaceId(table', now', workspace)
                      = FindByWorkspaceId(table, now, workspace)
             /\ \A session \in Sessions :
                   FindBySessionId(table', now', session)
                      = FindBySessionId(table, now, session) ]_vars

\* a cleanup_expired has just swept rows away while workspace w1 still shows
\* entries of both tasks, one of them expiring at this very instant
C29_Witness ==
    /\ storeResult.op = "cleanup_expired"
    /\ storeResult.at = now
    /\ storeResult.affected >= 1
    /\ LET seen == FindByWorkspaceId(table, now, "w1")
       IN /\ Len(seen) = 2
          /\ seen[1].task_id # seen[2].task_id
          /\ seen[1].expires_at = now
          /\ seen[2].expires_at > now

\* ------------------------------------------------------------------------
\* Portfolio: properties
\* ------------------------------------------------------------------------

\* a step in which the update of caller u has run its UPDATE statement
UpdateReturns(u) == updaters[u].pc = "found" /\ updaters'[u].pc = "idle"

\* a step in which an update found no row under the id it was given
UpdateNotFound ==
    /\ portfolioResult'.op = "update"
    /\ portfolioResult'.tag = "RowNotFound"
    /\ portfolioResult' # portfolioResult

\* C30 as stated: an update leaves a field given as None with the value stored
\* when it writes and sets a field given as Some(v) to v, so that of two
\* concurrent updates of one portfolio that set disjoint fields both changes
\* are in the row whatever the interleaving; an update finding no row under
\* its id fails with RowNotFound and changes nothing.
C30_NoLostUpdate ==
    [][ /\ \A u \in Updaters :
             (UpdateReturns(u) /\ portfolios[updaters[u].id] # None) =>
                LET payload == updaters[u].payload[1]
                    stored == portfolios[updaters[u].id][1]
                    written == portfolios'[updaters[u].id][1]
                IN /\ portfolioResult'.tag = "Ok"
                   /\ portfolioResult'.row = Some(written)
                   /\ written.id = stored.id
                   /\ written.name =
                         IF payload.name = None THEN stored.name ELSE payload.name[1]
                   /\ written.description =
                         IF payload.description = None THEN stored.description
                         ELSE payload.description
                   /\ written.theme =
                         IF payload.theme = None THEN stored.theme ELSE payload.theme
        /\ UpdateNotFound => portfolios' = portfolios ]_vars

=============================================================================
